---- MODULE Spec2Model ----
(***************************************************************************)
(* Model of the error introspection of package raygun (crashreport):        *)
(* FromErr and the helpers cause, class, data and stacktrace of util.go.    *)
(*                                                                          *)
(* Text is modelled as a sequence of one-character strings, so that         *)
(* strings.Split, strings.Join and strconv.Atoi are computed and not        *)
(* assumed.  An error value (a Go interface value) is a record that lists   *)
(* its dynamic kind and its method set.  Every goroutine that calls FromErr *)
(* is a process p; its position in the code is pc[p].                       *)
(***************************************************************************)
EXTENDS Integers, Sequences, FiniteSets, TLC

\* ------------------------------------------------------------------ bounds
\* number of goroutines calling FromErr
NumProcs == 2
\* longest sequence a StackTrace() method returns
MaxFrames == 4
\* deepest call stack of the caller of FromErr
MaxDepth == 3
\* longest chain of errors handed to cause
MaxChain == 3

Procs == 1..NumProcs

\* ------------------------------------------------------------------- text
NL == "\n"
TAB == "\t"
Digits == <<"0", "1", "2", "3", "4", "5", "6", "7", "8", "9">>

IsDigit(c) == \E i \in 1..10 : Digits[i] = c

DigitVal(c) == (CHOOSE i \in 1..10 : Digits[i] = c) - 1

\* does sep occur in s at position i
MatchAt(s, sep, i) ==
  /\ i + Len(sep) - 1 <= Len(s)
  /\ \A k \in 1..Len(sep) : s[i + k - 1] = sep[k]

\* first position of sep in s, 0 when there is none (strings.Index + 1)
Index(s, sep) ==
  IF \E i \in 1..Len(s) : MatchAt(s, sep, i)
  THEN CHOOSE i \in 1..Len(s) :
         /\ MatchAt(s, sep, i)
         /\ \A j \in 1..(i - 1) : ~MatchAt(s, sep, j)
  ELSE 0

\* strings.Split(s, sep) for a non-empty sep
RECURSIVE Split(_, _)
Split(s, sep) ==
  LET i == Index(s, sep)
  IN  IF i = 0
      THEN <<s>>
      ELSE <<SubSeq(s, 1, i - 1)>> \o Split(SubSeq(s, i + Len(sep), Len(s)), sep)

\* strings.Join(parts, sep)
RECURSIVE Join(_, _)
Join(parts, sep) ==
  IF Len(parts) = 0 THEN <<>>
  ELSE IF Len(parts) = 1 THEN parts[1]
  ELSE parts[1] \o sep \o Join(Tail(parts), sep)

RECURSIVE DigitsValue(_, _)
DigitsValue(s, acc) ==
  IF Len(s) = 0 THEN acc ELSE DigitsValue(Tail(s), acc * 10 + DigitVal(Head(s)))

\* strconv.Atoi(s): an optional sign and at least one decimal digit
Atoi(s) ==
  LET signed == Len(s) > 0 /\ Head(s) \in {"+", "-"}
      body   == IF signed THEN Tail(s) ELSE s
      ok     == Len(body) > 0 /\ \A i \in 1..Len(body) : IsDigit(body[i])
  IN  [ok |-> ok,
       n  |-> IF ~ok THEN 0
              ELSE IF signed /\ Head(s) = "-" THEN 0 - DigitsValue(body, 0)
              ELSE DigitsValue(body, 0)]

\* ------------------------------------------------------------ data model
\* the nil interface{} value of Error.Data
Nil == "<nil>"

\* StackTraceElement{lineNumber, packageName, fileName, methodName}
StackTraceElement(lineNumber, packageName, fileName, methodName) ==
  [LineNumber |-> lineNumber, PackageName |-> packageName,
   FileName |-> fileName, MethodName |-> methodName]

\* the zero value of struct Error
ZeroError ==
  [InnerError |-> "", Data |-> Nil, ClassName |-> "", Message |-> "",
   StackTrace |-> <<>>]

\* AddEntry putting the new element in front of the trace
AddEntryFront(s, lineNumber, packageName, fileName, methodName) ==
  <<StackTraceElement(lineNumber, packageName, fileName, methodName)>> \o s

\* (s *StackTrace) AddEntry: *s = append(*s, StackTraceElement{...})
AddEntry(s, lineNumber, packageName, fileName, methodName) ==
  Append(s, StackTraceElement(lineNumber, packageName, fileName, methodName))

\* An error interface value.  kind: "nil" (the nil interface), "Error" (the
\* dynamic type is raygun.Error, val holds the struct) or "err" (any other
\* type).  classM / dataM: the type has the exported method Class() string /
\* Data() interface{}.  stM: the one method named StackTrace of the type:
\* "A" returns pkgerr.StackTrace (stA), "B" returns []string (stB), "none".
\* causes: the texts of the errors below it in the cause chain, root last.
ErrValue(kind, msg, val, classM, classV, dataM, dataV, stM, stA, stB, causes) ==
  [kind |-> kind, msg |-> msg, val |-> val, classM |-> classM,
   classV |-> classV, dataM |-> dataM, dataV |-> dataV, stM |-> stM,
   stA |-> stA, stB |-> stB, causes |-> causes]

NilErr == ErrValue("nil", "", ZeroError, FALSE, "", FALSE, Nil, "none", <<>>, <<>>, <<>>)

\* an Error struct held in an error interface: (e Error) Error() returns
\* e.Message; the struct has fields, and no methods, named Class, Data,
\* StackTrace
AsError(v) ==
  ErrValue("Error", v.Message, v, FALSE, "", FALSE, Nil, "none", <<>>, <<>>, <<>>)

\* a pkgerr.Frame, given by what fmt renders for it with %d, %+s and %n
Frame(d, s, n) == [d |-> d, s |-> s, n |-> n]

\* --------------------------------------------------------------- inputs
FrameP == Frame(<<"1", "2">>, <<"p", ".", "q", ".", "F", NL, TAB, "a">>, <<"F">>)
FrameM == Frame(<<"7">>, <<"m", ".", "G", NL, TAB, "b">>, <<"G">>)
\* a frame whose function is not known renders %+s as text without "\n\t"
FrameUnknown == Frame(<<"0">>, <<"u">>, <<"u">>)
FrameBadLine == Frame(<<"x">>, <<"m", ".", "H", NL, TAB, "c">>, <<"H">>)
Frames == {FrameP, FrameM, FrameUnknown, FrameBadLine}

Lines ==
  { <<"a", ":", "1", "2">>, <<"b", ":", "x">>, <<"c">>,
    <<"d", ":", "7", ":", "3">> }

SeqsUpTo(S, n) == UNION { [1..k -> S] : k \in 0..n }

RayErrs ==
  { ZeroError,
    [InnerError |-> "root", Data |-> "payload", ClassName |-> "cls",
     Message |-> "m",
     StackTrace |-> <<StackTraceElement(3, <<"p">>, <<"f">>, <<"g">>)>>] }

PlainErrs ==
  { ErrValue("err", "new error", ZeroError, c, IF c THEN "cls" ELSE "",
             d, IF d THEN "payload" ELSE Nil, "none", <<>>, <<>>, <<>>) :
      c \in BOOLEAN, d \in BOOLEAN }

\* pkg/errors: Wrap(New("new error"), "wrapped err")
WrapErrs ==
  { ErrValue("err", "wrapped err: new error", ZeroError, FALSE, "", FALSE, Nil,
             "A", s, <<>>, <<"new error">>) : s \in SeqsUpTo(Frames, MaxFrames) }

\* juju/errors: Annotate(New("new error"), "wrapped err")
AnnotateErrs ==
  { ErrValue("err", "wrapped err: new error", ZeroError, FALSE, "", FALSE, Nil,
             "B", <<>>, s, <<"new error">>) : s \in SeqsUpTo(Lines, MaxFrames) }

Errors ==
  {NilErr} \cup {AsError(v) : v \in RayErrs} \cup PlainErrs \cup WrapErrs
    \cup AnnotateErrs

\* a small set with one error of each kind, for the concurrent specification
ConcErrors ==
  { e \in Errors :
      /\ Len(e.stA) \in {0, 2} /\ Len(e.stB) \in {0, 2}
      /\ \A i \in 1..Len(e.stA) : e.stA[i] \in {FrameP, FrameM} /\ (i = 1 <=> e.stA[i] = FrameP)
      /\ \A i \in 1..Len(e.stB) : e.stB[i] = IF i = 1 THEN <<"a", ":", "1", "2">> ELSE <<"b", ":", "x">>
      /\ e.classM = e.dataM
      /\ e.kind = "Error" => e.val # ZeroError }

\* ------------------------------------------------------- execution stack
\* the frames of the caller of FromErr in goroutine p, innermost first
CallerStack(p, depth) ==
  [i \in 1..depth |->
     StackTraceElement(10 * p + i, <<"t">>, <<"t", ".", "g", "o">>, <<"T">>)]

\* the frames of stacktrace and of FromErr themselves
OwnFrames ==
  << StackTraceElement(149, <<"r">>, <<"u", ".", "g", "o">>, <<"s">>),
     StackTraceElement(185, <<"r">>, <<"r", ".", "g", "o">>, <<"F">>) >>

\* ------------------------------------------------------------ util.go
\* the assertion written for *Error: an Error value never matches
IsErrorPointer(e) == FALSE

\* err.(Error): the dynamic type is the struct Error
IsError(e) == e.kind = "Error"

\* err.(classer): the dynamic type has Class() string
classer(e) == e.kind # "nil" /\ e.classM

class(e) == IF classer(e) THEN e.classV ELSE ""

\* err.(dataer): the local interface asks for the unexported method data();
\* no type of the package declares one and the types of other packages
\* cannot, so the exported Data() of the error is not looked at
dataer(e) == FALSE

data(e) == IF dataer(e) THEN e.dataV ELSE Nil

\* strategy A chosen only when the sequence has elements
stackTracer1NonEmpty(e) == e.kind # "nil" /\ e.stM = "A" /\ Len(e.stA) > 0

\* err.(stackTracer1), err.(stackTracer2)
stackTracer1(e) == e.kind # "nil" /\ e.stM = "A"

stackTracer2(e) == e.kind # "nil" /\ e.stM = "B"

\* stacktrace without its second type assertion
StrategySkipB(e) == IF stackTracer1(e) THEN "A" ELSE "C"

\* the branch stacktrace takes: the first type assertion that succeeds
Strategy(e) ==
  IF stackTracer1(e) THEN "A" ELSE IF stackTracer2(e) THEN "B" ELSE "C"

\* the loops without `n = -1`: the 0 Atoi returns with its error is kept
LineNumberZero(text) == Atoi(text).n

\* the line number the loops record: n, or -1 when Atoi returns an error
LineNumber(text) == IF Atoi(text).ok THEN Atoi(text).n ELSE -1

\* the loop over a pkgerr.StackTrace keeping only the first segment of the
\* symbol as the package
EntryAFirstSegment(line) ==
  LET n         == LineNumber(line.d)
      parts     == Split(line.s, <<NL, TAB>>)
      packparts == Split(parts[1], <<".">>)
      pack      == IF Len(packparts) > 1 THEN packparts[1] ELSE <<>>
  IN  IF Len(parts) < 2
      THEN [panic |-> TRUE, n |-> n, pack |-> pack, file |-> <<>>, meth |-> line.n]
      ELSE [panic |-> FALSE, n |-> n, pack |-> pack, file |-> parts[2], meth |-> line.n]

\* the body of the loop over a pkgerr.StackTrace.  parts[1] of the code is
\* parts[2] here; reading it panics when the split gave one part.
EntryA(line) ==
  LET n         == LineNumber(line.d)
      filename  == line.s
      parts     == Split(filename, <<NL, TAB>>)
      packparts == Split(parts[1], <<".">>)
      pack      == Join(SubSeq(packparts, 1, Len(packparts) - 1), <<".">>)
  IN  IF Len(parts) < 2
      THEN [panic |-> TRUE, n |-> n, pack |-> pack, file |-> <<>>, meth |-> line.n]
      ELSE [panic |-> FALSE, n |-> n, pack |-> pack, file |-> parts[2], meth |-> line.n]

\* the loop over a []string reading the line number from the last field
EntryBLastField(line) ==
  LET parts == Split(line, <<":">>)
  IN  IF Len(parts) < 2
      THEN [panic |-> TRUE, n |-> -1, pack |-> <<>>, file |-> parts[1], meth |-> <<>>]
      ELSE [panic |-> FALSE, n |-> LineNumber(parts[Len(parts)]), pack |-> <<>>,
            file |-> parts[1], meth |-> <<>>]

\* the body of the loop over a []string.  Atoi(parts[1]) of the code reads
\* parts[2] here and panics when the line holds no ":".
EntryB(line) ==
  LET parts == Split(line, <<":">>)
  IN  IF Len(parts) < 2
      THEN [panic |-> TRUE, n |-> -1, pack |-> <<>>, file |-> parts[1], meth |-> <<>>]
      ELSE [panic |-> FALSE, n |-> LineNumber(parts[2]), pack |-> <<>>,
            file |-> parts[1], meth |-> <<>>]

\* stack2struct.Parse(rawStackTrace, &stack): one AddEntry per frame of the
\* dump, in the order of the dump
RECURSIVE Parse(_, _)
Parse(raw, s) ==
  IF Len(raw) = 0 THEN s
  ELSE Parse(Tail(raw),
             AddEntry(s, Head(raw).LineNumber, Head(raw).PackageName,
                      Head(raw).FileName, Head(raw).MethodName))

\* stack[1:]
DropOne(s) == SubSeq(s, 2, Len(s))

\* stack[2:]
DropOwn(s) == SubSeq(s, 3, Len(s))

\* ------------------------------------------------------------------ state
VARIABLES
  pc,      \* pc[p]: where goroutine p is in FromErr / stacktrace
  err,     \* err[p]: the argument of the call
  arg,     \* arg[p]: the argument as the caller passed it (never written)
  gstack,  \* gstack[p]: the frames of the caller, read by runtime.Stack
  rayerr,  \* rayerr[p]: the Error literal under construction
  stack,   \* stack[p]: the local variable stack of stacktrace
  idx,     \* idx[p]: position of the range loop
  probes,  \* probes[p]: what the call has evaluated so far
  ret,     \* ret[p]: the value FromErr returned
  nested,  \* nested[p]: the argument is the result of the previous call
  prev     \* prev[p]: that previous result

vars == <<pc, err, arg, gstack, rayerr, stack, idx, probes, ret, nested, prev>>

\* stack as one package-level variable that every call appends to
Shared(p) == 1

\* `stack := StackTrace{}` is a local variable: each call has its own
Local(p) == p

\* runtime.Stack(buf, false): the dump of the calling goroutine only, the
\* frame of stacktrace first, then FromErr, then the caller's
runtimeStack(p) == OwnFrames \o gstack[p]

\* ---------------------------------------------------------------- cause
\* An error handed to cause is the chain it heads: a sequence of nodes, the
\* error itself first, each node followed by the error it holds.  causer:
\* the node's type has Cause() error, which returns the next node, or nil
\* when the node is the last.  The nil error is the empty chain.
Node(msg, hasCause) == [msg |-> msg, causer |-> hasCause]

Nodes ==
  { Node(m, c) : m \in {"wrapped err: new error", "new error"}, c \in BOOLEAN }

Chains == SeqsUpTo(Nodes, MaxChain)

VARIABLES
  cpc,     \* where the call of cause is: "idle", "loop", "done"
  carg,    \* the chain the caller passed
  cerr,    \* the variable err of cause
  csteps,  \* how often `err = c` ran
  ccalls,  \* how often Cause() was called
  cret     \* the value cause returned

causeVars == <<cpc, carg, cerr, csteps, ccalls, cret>>

\* err.(causer): false for the nil interface
causer(e) == Len(e) > 0 /\ e[1].causer

\* cause.Cause()
Cause(e) == Tail(e)

\* the loop without `if c == nil { break }`
NeverNil(c) == FALSE

\* c == nil
IsNil(c) == c = <<>>

CauseInit ==
  /\ cpc = "idle"
  /\ carg = <<>>
  /\ cerr = <<>>
  /\ csteps = 0
  /\ ccalls = 0
  /\ cret = <<>>

\* the caller calls cause(e)
CauseCall ==
  /\ cpc = "idle"
  /\ UNCHANGED vars
  /\ \E e \in Chains :
       /\ carg' = e
       /\ cerr' = e
  /\ cpc' = "loop"
  /\ csteps' = 0
  /\ ccalls' = 0
  /\ cret' = <<>>

\* one iteration of the for loop, or a break and `return err`
CauseLoop ==
  /\ cpc = "loop"
  /\ UNCHANGED vars
  /\ IF ~causer(cerr)
     THEN /\ cret' = cerr
          /\ cpc' = "done"
          /\ UNCHANGED <<cerr, csteps, ccalls>>
     ELSE IF IsNil(Cause(cerr))
     THEN /\ cret' = cerr
          /\ cpc' = "done"
          /\ ccalls' = ccalls + 1
          /\ UNCHANGED <<cerr, csteps>>
     ELSE /\ cerr' = Cause(cerr)
          /\ csteps' = csteps + 1
          /\ ccalls' = ccalls + 1
          /\ UNCHANGED <<cpc, cret>>
  /\ UNCHANGED carg

\* the caller takes the result
CauseFinish ==
  /\ cpc = "done"
  /\ UNCHANGED vars
  /\ cpc' = "idle"
  /\ carg' = <<>>
  /\ cerr' = <<>>
  /\ csteps' = 0
  /\ ccalls' = 0
  /\ cret' = <<>>

Init ==
  /\ CauseInit
  /\ pc = [p \in Procs |-> "idle"]
  /\ err = [p \in Procs |-> NilErr]
  /\ arg = [p \in Procs |-> NilErr]
  /\ gstack = [p \in Procs |-> <<>>]
  /\ rayerr = [p \in Procs |-> ZeroError]
  /\ stack = [p \in Procs |-> <<>>]
  /\ idx = [p \in Procs |-> 0]
  /\ probes = [p \in Procs |-> {}]
  /\ ret = [p \in Procs |-> ZeroError]
  /\ nested = [p \in Procs |-> FALSE]
  /\ prev = [p \in Procs |-> ZeroError]

\* an unrecovered panic ends the program
Crashed == \E p \in Procs : pc[p] = "panic"

Enter(p, e, d) ==
  /\ pc' = [pc EXCEPT ![p] = "assert"]
  /\ err' = [err EXCEPT ![p] = e]
  /\ arg' = [arg EXCEPT ![p] = e]
  /\ gstack' = [gstack EXCEPT ![p] = CallerStack(p, d)]
  /\ rayerr' = [rayerr EXCEPT ![p] = ZeroError]
  /\ idx' = [idx EXCEPT ![p] = 0]
  /\ probes' = [probes EXCEPT ![p] = {}]
  /\ ret' = [ret EXCEPT ![p] = ZeroError]
  /\ UNCHANGED stack

\* the caller calls FromErr(e), e one of the errors E, from a stack of one
\* of the depths D
Call(p, E, D) ==
  /\ ~Crashed
  /\ UNCHANGED causeVars
  /\ pc[p] = "idle"
  /\ \E e \in E, d \in D : Enter(p, e, d)
  /\ nested' = [nested EXCEPT ![p] = FALSE]
  /\ prev' = [prev EXCEPT ![p] = ZeroError]

\* the caller calls FromErr(FromErr(e)): the result goes back in
Recall(p, D) ==
  /\ ~Crashed
  /\ UNCHANGED causeVars
  /\ pc[p] = "done"
  /\ ~nested[p]
  /\ \E d \in D : Enter(p, AsError(ret[p]), d)
  /\ nested' = [nested EXCEPT ![p] = TRUE]
  /\ prev' = [prev EXCEPT ![p] = ret[p]]

\* if e, ok := err.(Error); ok { return e }
TypeAssert(p) ==
  /\ ~Crashed
  /\ UNCHANGED causeVars
  /\ pc[p] = "assert"
  /\ IF IsError(err[p])
     THEN /\ ret' = [ret EXCEPT ![p] = err[p].val]
          /\ pc' = [pc EXCEPT ![p] = "done"]
     ELSE /\ pc' = [pc EXCEPT ![p] = "message"]
          /\ UNCHANGED ret
  /\ UNCHANGED <<err, arg, gstack, rayerr, stack, idx, probes, nested, prev>>

\* Message: err.Error(); a method call on the nil interface panics
Message(p) ==
  /\ ~Crashed
  /\ UNCHANGED causeVars
  /\ pc[p] = "message"
  /\ IF err[p].kind = "nil"
     THEN /\ pc' = [pc EXCEPT ![p] = "panic"]
          /\ UNCHANGED <<rayerr, probes>>
     ELSE /\ pc' = [pc EXCEPT ![p] = "class"]
          /\ rayerr' = [rayerr EXCEPT ![p].Message = err[p].msg]
          /\ probes' = [probes EXCEPT ![p] = @ \cup {"Error"}]
  /\ UNCHANGED <<err, arg, gstack, stack, idx, ret, nested, prev>>

\* ClassName: class(err)
Class(p) ==
  /\ ~Crashed
  /\ UNCHANGED causeVars
  /\ pc[p] = "class"
  /\ pc' = [pc EXCEPT ![p] = "data"]
  /\ rayerr' = [rayerr EXCEPT ![p].ClassName = class(err[p])]
  /\ probes' = [probes EXCEPT ![p] = @ \cup {"class"}]
  /\ UNCHANGED <<err, arg, gstack, stack, idx, ret, nested, prev>>

\* Data: data(err)
Data(p) ==
  /\ ~Crashed
  /\ UNCHANGED causeVars
  /\ pc[p] = "data"
  /\ pc' = [pc EXCEPT ![p] = "stacktrace"]
  /\ rayerr' = [rayerr EXCEPT ![p].Data = data(err[p])]
  /\ probes' = [probes EXCEPT ![p] = @ \cup {"data"}]
  /\ UNCHANGED <<err, arg, gstack, stack, idx, ret, nested, prev>>

\* StackTrace: stacktrace(err), up to the branch taken
Stacktrace(p) ==
  /\ ~Crashed
  /\ UNCHANGED causeVars
  /\ pc[p] = "stacktrace"
  /\ stack' = [stack EXCEPT ![Local(p)] = <<>>]
  /\ idx' = [idx EXCEPT ![p] = 1]
  /\ pc' = [pc EXCEPT ![p] = Strategy(err[p])]
  /\ probes' = [probes EXCEPT ![p] = @ \cup {"stacktrace", Strategy(err[p])}]
  /\ UNCHANGED <<err, arg, gstack, rayerr, ret, nested, prev>>

\* one iteration of `for _, line := range s` of either loop, or its end
\* and `return stack`
Loop(p, s, entry) ==
  IF idx[p] > Len(s)
  THEN /\ rayerr' = [rayerr EXCEPT ![p].StackTrace = stack[Local(p)]]
       /\ pc' = [pc EXCEPT ![p] = "return"]
       /\ UNCHANGED <<stack, idx>>
  ELSE IF entry.panic
  THEN /\ pc' = [pc EXCEPT ![p] = "panic"]
       /\ UNCHANGED <<rayerr, stack, idx>>
  ELSE /\ stack' = [stack EXCEPT ![Local(p)] =
                      AddEntry(@, entry.n, entry.pack, entry.file, entry.meth)]
       /\ idx' = [idx EXCEPT ![p] = @ + 1]
       /\ UNCHANGED <<rayerr, pc>>

\* Read pkg/errors stacktrace
LoopA(p) ==
  /\ ~Crashed
  /\ UNCHANGED causeVars
  /\ pc[p] = "A"
  /\ LET s == err[p].stA
     IN  Loop(p, s, IF idx[p] > Len(s) THEN EntryA(FrameP) ELSE EntryA(s[idx[p]]))
  /\ UNCHANGED <<err, arg, gstack, probes, ret, nested, prev>>

\* Read juju/errors stacktrace
LoopB(p) ==
  /\ ~Crashed
  /\ UNCHANGED causeVars
  /\ pc[p] = "B"
  /\ LET s == err[p].stB
     IN  Loop(p, s, IF idx[p] > Len(s) THEN EntryB(<<":">>) ELSE EntryB(s[idx[p]]))
  /\ UNCHANGED <<err, arg, gstack, probes, ret, nested, prev>>

\* runtime.Stack, stack2struct.Parse, return stack[2:]
Capture(p) ==
  /\ ~Crashed
  /\ UNCHANGED causeVars
  /\ pc[p] = "C"
  /\ LET parsed == Parse(runtimeStack(p), stack[Local(p)])
     IN  IF Len(parsed) < 2
         THEN /\ pc' = [pc EXCEPT ![p] = "panic"]
              /\ UNCHANGED <<rayerr, stack>>
         ELSE /\ stack' = [stack EXCEPT ![Local(p)] = parsed]
              /\ rayerr' = [rayerr EXCEPT ![p].StackTrace = DropOwn(parsed)]
              /\ pc' = [pc EXCEPT ![p] = "return"]
  /\ UNCHANGED <<err, arg, gstack, idx, probes, ret, nested, prev>>

\* return rayerr
Return(p) ==
  /\ ~Crashed
  /\ UNCHANGED causeVars
  /\ pc[p] = "return"
  /\ ret' = [ret EXCEPT ![p] = rayerr[p]]
  /\ pc' = [pc EXCEPT ![p] = "done"]
  /\ UNCHANGED <<err, arg, gstack, rayerr, stack, idx, probes, nested, prev>>

\* the caller takes the result; the goroutine may call again
Finish(p) ==
  /\ ~Crashed
  /\ UNCHANGED causeVars
  /\ pc[p] = "done"
  /\ pc' = [pc EXCEPT ![p] = "idle"]
  /\ err' = [err EXCEPT ![p] = NilErr]
  /\ arg' = [arg EXCEPT ![p] = NilErr]
  /\ gstack' = [gstack EXCEPT ![p] = <<>>]
  /\ rayerr' = [rayerr EXCEPT ![p] = ZeroError]
  /\ stack' = [stack EXCEPT ![p] = <<>>]
  /\ idx' = [idx EXCEPT ![p] = 0]
  /\ probes' = [probes EXCEPT ![p] = {}]
  /\ ret' = [ret EXCEPT ![p] = ZeroError]
  /\ nested' = [nested EXCEPT ![p] = FALSE]
  /\ prev' = [prev EXCEPT ![p] = ZeroError]

Step(p) ==
  \/ TypeAssert(p) \/ Message(p) \/ Class(p) \/ Data(p) \/ Stacktrace(p)
  \/ LoopA(p) \/ LoopB(p) \/ Capture(p) \/ Return(p) \/ Finish(p)

\* one goroutine, every input
Next ==
  \/ Call(1, Errors, 1..MaxDepth)
  \/ Recall(1, 1..MaxDepth)
  \/ Step(1)

Spec == Init /\ [][Next]_<<vars, causeVars>>

\* the depth of the stack goroutine p calls from in the concurrent runs
DepthOf(p) == ((p - 1) % MaxDepth) + 1

\* every goroutine, on any interleaving, one input of each kind
NextConc ==
  \E p \in Procs :
    \/ Call(p, ConcErrors, {DepthOf(p)})
    \/ Step(p)

SpecConc == Init /\ [][NextConc]_<<vars, causeVars>>

\* calls of cause, every chain
NextCause == CauseCall \/ CauseLoop \/ CauseFinish

SpecCause == Init /\ [][NextCause]_<<vars, causeVars>>

\* ------------------------------------------------- the result of one call
\* the frame one entry of a pkgerr.StackTrace / of a []string becomes
ElemA(line) ==
  StackTraceElement(EntryA(line).n, EntryA(line).pack, EntryA(line).file,
                    EntryA(line).meth)

ElemB(line) ==
  StackTraceElement(EntryB(line).n, EntryB(line).pack, EntryB(line).file,
                    EntryB(line).meth)

\* the trace of each strategy, run on its own to its end
ResultA(e) == [i \in 1..Len(e.stA) |-> ElemA(e.stA[i])]

ResultB(e) == [i \in 1..Len(e.stB) |-> ElemB(e.stB[i])]

ResultC(g) == g

\* the strategies the call of p has entered
Ran(p) == probes[p] \cap {"A", "B", "C"}

\* the first strategy, in the order A, B, C, whose capability e has
FirstPresent(e) ==
  IF e.stM = "A" THEN "A" ELSE IF e.stM = "B" THEN "B" ELSE "C"

Returned(p) == pc[p] = "done" /\ arg[p].kind = "err"

\* ----------------------------------------------------------------- claims
\* C1: stacktrace tries A, B, C in this order: a call never enters a
\* strategy other than the first one whose capability the error has, and
\* the trace it returns is that strategy's result (an error with the A
\* capability gets A's result).
C1_StrategyOrder ==
  \A p \in Procs :
    /\ Ran(p) \subseteq {FirstPresent(arg[p])}
    /\ Returned(p) =>
         /\ Ran(p) = {FirstPresent(arg[p])}
         /\ ret[p].StackTrace =
              CASE FirstPresent(arg[p]) = "A" -> ResultA(arg[p])
                [] FirstPresent(arg[p]) = "B" -> ResultB(arg[p])
                [] OTHER -> ResultC(gstack[p])

C1_Witness ==
  \E p \in Procs :
    /\ Returned(p)
    /\ arg[p].stM = "B"
    /\ Len(arg[p].stB) = 2
    /\ Ran(p) = {"B"}
    /\ ret[p].StackTrace = ResultB(arg[p])
    /\ ret[p].StackTrace # gstack[p]

\* C2: every call of FromErr completes and returns; none panics.
C2_NeverPanics == \A p \in Procs : pc[p] # "panic"

\* C3: for an error that wraps a root error, message is the text of the
\* error itself and innerError is the text of the root of its cause chain.
C3_InnerError ==
  \A p \in Procs :
    Returned(p) /\ arg[p].causes # <<>> =>
      /\ ret[p].Message = arg[p].msg
      /\ ret[p].InnerError = arg[p].causes[Len(arg[p].causes)]

\* C4: FromErr(FromErr(e)) = FromErr(e); an Error comes back with every
\* field unchanged and nothing is probed or traced for it.
C4_Idempotent ==
  \A p \in Procs :
    /\ pc[p] = "done" /\ nested[p] => ret[p] = prev[p]
    /\ arg[p].kind = "Error" => probes[p] = {}
    /\ pc[p] = "done" /\ arg[p].kind = "Error" => ret[p] = arg[p].val

C4_Witness ==
  \E p \in Procs :
    /\ pc[p] = "done"
    /\ nested[p]
    /\ prev[p].StackTrace # <<>>
    /\ prev[p].StackTrace # gstack[p]
    /\ ret[p] = prev[p]
    /\ probes[p] = {}

\* C5: className is what Class() returns and data is what Data() returns;
\* without the accessor className is "" and data is nil.
C5_ClassAndData ==
  \A p \in Procs :
    Returned(p) =>
      /\ ret[p].ClassName = (IF arg[p].classM THEN arg[p].classV ELSE "")
      /\ ret[p].Data = (IF arg[p].dataM THEN arg[p].dataV ELSE Nil)

\* the sequence the StackTrace() method of e returns
Recorded(e) == IF e.stM = "A" THEN e.stA ELSE e.stB

\* the text of the line field of entry i: what %d renders (A), the second
\* ":"-separated field (B); <<>> when the entry has no such field
LineField(e, i) ==
  IF e.stM = "A" THEN e.stA[i].d
  ELSE IF Len(Split(e.stB[i], <<":">>)) >= 2 THEN Split(e.stB[i], <<":">>)[2]
  ELSE <<>>

\* text that is a decimal integer: digits after an optional sign
Decimal(text) ==
  \E k \in 1..Len(text) :
    /\ k = 1 \/ (k = 2 /\ text[1] \in {"+", "-"})
    /\ \A i \in k..Len(text) : IsDigit(text[i])

\* the entry has the separator its loop indexes behind
WellFormed(e, i) ==
  IF e.stM = "A" THEN Index(e.stA[i].s, <<NL, TAB>>) > 0
  ELSE Index(e.stB[i], <<":">>) > 0

\* C6: the capability selects the strategy, not its content: an error whose
\* StackTrace() returns zero elements gets an empty trace, and the raw
\* stack capture is never run for an error that has the method.
C6_EmptySequence ==
  \A p \in Procs :
    arg[p].kind = "err" /\ arg[p].stM \in {"A", "B"} =>
      /\ "C" \notin probes[p]
      /\ pc[p] = "done" /\ Recorded(arg[p]) = <<>> => ret[p].StackTrace = <<>>

C6_Witness ==
  \E p \in Procs :
    /\ Returned(p)
    /\ arg[p].stM = "A"
    /\ arg[p].stA = <<>>
    /\ gstack[p] # <<>>
    /\ "A" \in probes[p]
    /\ ret[p].StackTrace = <<>>

\* C7: in strategies A and B an entry whose line field is not a decimal
\* integer gives a frame with lineNumber -1 at the entry's own position;
\* it neither stops the extraction nor changes the frames of the other
\* entries, which carry the line numbers their own fields spell.
C7_BadLineNumber ==
  \A p \in Procs :
    LET e == arg[p]
        s == Recorded(e)
    IN  e.kind = "err" /\ e.stM \in {"A", "B"} =>
          /\ pc[p] = "panic" => \E i \in 1..Len(s) : ~WellFormed(e, i)
          /\ pc[p] = "done" =>
               /\ Len(ret[p].StackTrace) = Len(s)
               /\ \A i \in 1..Len(s) :
                    IF Decimal(LineField(e, i))
                    THEN ret[p].StackTrace[i].LineNumber = Atoi(LineField(e, i)).n
                    ELSE ret[p].StackTrace[i].LineNumber = -1

C7_Witness ==
  \E p \in Procs :
    /\ Returned(p)
    /\ arg[p].stM = "B"
    /\ Len(arg[p].stB) = 3
    /\ ~Decimal(LineField(arg[p], 2))
    /\ LineField(arg[p], 2) # <<>>
    /\ Decimal(LineField(arg[p], 1)) /\ Decimal(LineField(arg[p], 3))
    /\ ret[p].StackTrace[2].LineNumber = -1
    /\ ret[p].StackTrace[1].LineNumber = 12
    /\ ret[p].StackTrace[3].LineNumber = 7

\* C8: for an error without a StackTrace method the trace is the parsed
\* dump of the calling goroutine's stack without its first two frames, the
\* rest in order: it starts at the caller's call site into FromErr.
C8_RawCapture ==
  \A p \in Procs :
    Returned(p) /\ arg[p].stM = "none" =>
      LET dump == OwnFrames \o gstack[p]
      IN  /\ "C" \in probes[p]
          /\ Len(ret[p].StackTrace) = Len(dump) - 2
          /\ \A i \in 1..Len(ret[p].StackTrace) : ret[p].StackTrace[i] = dump[i + 2]
          /\ ret[p].StackTrace[1] = gstack[p][1]

C8_Witness ==
  \E p \in Procs :
    /\ Returned(p)
    /\ arg[p].stM = "none"
    /\ Len(gstack[p]) = 3
    /\ Len(ret[p].StackTrace) = 3
    /\ ret[p].StackTrace[1] = gstack[p][1]
    /\ ret[p].StackTrace[3] = gstack[p][3]

\* C9: in strategies A and B the trace holds one frame per entry of the
\* returned sequence, the i-th frame built from the i-th entry, while the
\* loop runs (the frames of the entries passed so far) and at its end.
C9_OneFramePerEntry ==
  \A p \in Procs :
    LET e    == arg[p]
        full == IF e.stM = "A" THEN ResultA(e) ELSE ResultB(e)
    IN  e.kind = "err" /\ e.stM \in {"A", "B"} =>
          /\ pc[p] \in {"A", "B"} =>
               /\ idx[p] \in 1..(Len(Recorded(e)) + 1)
               /\ stack[p] = SubSeq(full, 1, idx[p] - 1)
          /\ pc[p] = "done" =>
               /\ Len(ret[p].StackTrace) = Len(Recorded(e))
               /\ ret[p].StackTrace = full

C9_Witness ==
  \E p \in Procs :
    /\ Returned(p)
    /\ arg[p].stM = "A"
    /\ arg[p].stA = <<FrameP, FrameM, FrameBadLine, FrameM>>
    /\ Len(ret[p].StackTrace) = 4
    /\ ret[p].StackTrace[1] = ElemA(FrameP)
    /\ ret[p].StackTrace[3] = ElemA(FrameBadLine)

\* the value FromErr(e) returns when it runs alone from a caller with the
\* frames g
Alone(e, g) ==
  IF e.kind = "Error" THEN e.val
  ELSE [InnerError |-> "", Data |-> data(e), ClassName |-> class(e),
        Message |-> e.msg,
        StackTrace |-> CASE FirstPresent(e) = "A" -> ResultA(e)
                         [] FirstPresent(e) = "B" -> ResultB(e)
                         [] OTHER -> ResultC(g)]

\* C10: on every interleaving of concurrent calls, each call leaves its
\* argument as the caller passed it and returns what it returns when it
\* runs alone.
C10_Independent ==
  \A p \in Procs :
    /\ pc[p] # "idle" => err[p] = arg[p]
    /\ pc[p] = "done" => ret[p] = Alone(arg[p], gstack[p])

C10_Witness ==
  \E p, q \in Procs :
    /\ p # q
    /\ pc[p] = "done"
    /\ arg[p].stM = "A"
    /\ Len(ret[p].StackTrace) = 2
    /\ ret[p] = Alone(arg[p], gstack[p])
    /\ pc[q] = "B"
    /\ idx[q] = 2
    /\ Len(stack[q]) = 1

\* the position in chain e of the first error that has no Cause method or
\* whose Cause() returns nil (the last error of the chain)
StopAt(e) ==
  CHOOSE i \in 1..Len(e) :
    /\ ~e[i].causer \/ i = Len(e)
    /\ \A j \in 1..(i - 1) : e[j].causer /\ j # Len(e)

\* the part of chain e from position i on: the error at i as a value
From(e, i) == SubSeq(e, i, Len(e))

C11_Result ==
  /\ cpc = "loop" =>
       /\ csteps <= Len(carg)
       /\ cerr = From(carg, csteps + 1)
  /\ cpc = "done" /\ carg = <<>> =>
       /\ cret = <<>>
       /\ ccalls = 0
       /\ csteps = 0
  /\ cpc = "done" /\ carg # <<>> =>
       /\ csteps = StopAt(carg) - 1
       /\ cret = From(carg, StopAt(carg))
       /\ cret # <<>>
       /\ ccalls = csteps + (IF carg[StopAt(carg)].causer THEN 1 ELSE 0)

\* C11: on a finite chain, cause returns after exactly as many unwrapping
\* steps as the chain is deep, with the first error that has no Cause
\* method or whose Cause() returns nil (that nil is never the result); the
\* nil error comes back unchanged and Cause() is not called for it.  Every
\* pass of the loop either returns or unwraps one level.
C11_CauseResolution ==
  /\ []C11_Result
  /\ [][cpc = "loop" => cpc' = "done" \/ csteps' = csteps + 1]_causeVars

C11_Witness ==
  /\ cpc = "done"
  /\ Len(carg) = 3
  /\ \A i \in 1..3 : carg[i].causer
  /\ csteps = 2
  /\ ccalls = 3
  /\ cret = <<carg[3]>>

\* the integer a decimal text spells
IntValue(text) ==
  IF text[1] = "-" THEN 0 - DigitsValue(Tail(text), 0)
  ELSE IF text[1] = "+" THEN DigitsValue(Tail(text), 0)
  ELSE DigitsValue(text, 0)

\* the text of s before its first sep, all of s when it has none
Before(s, sep) ==
  IF Index(s, sep) = 0 THEN s ELSE SubSeq(s, 1, Index(s, sep) - 1)

\* the text of s after its first sep
After(s, sep) == SubSeq(s, Index(s, sep) + Len(sep), Len(s))

\* the second ":"-separated field of s, which holds a ":"
SecondField(s) == Before(After(s, <<":">>), <<":">>)

\* C12: in strategy B the frame of each string has as fileName the text
\* before the first ":", as lineNumber the integer the second ":"-separated
\* field spells, or -1 when it spells none, and empty packageOrClassName and
\* methodName; "a:12" gives file "a" and line 12.
C12_StringLineFields ==
  \A p \in Procs :
    Returned(p) /\ arg[p].stM = "B" =>
      /\ Len(ret[p].StackTrace) = Len(arg[p].stB)
      /\ \A i \in 1..Len(arg[p].stB) :
           LET s == arg[p].stB[i]
               f == ret[p].StackTrace[i]
           IN  /\ f.FileName = Before(s, <<":">>)
               /\ f.LineNumber =
                    (IF Decimal(SecondField(s))
                     THEN IntValue(SecondField(s)) ELSE -1)
               /\ f.PackageName = <<>>
               /\ f.MethodName = <<>>
               /\ s = <<"a", ":", "1", "2">> =>
                    f.FileName = <<"a">> /\ f.LineNumber = 12

C12_Witness ==
  \E p \in Procs :
    /\ Returned(p)
    /\ arg[p].stM = "B"
    /\ arg[p].stB = << <<"d", ":", "7", ":", "3">>, <<"a", ":", "1", "2">> >>
    /\ ret[p].StackTrace[1] = StackTraceElement(7, <<>>, <<"d">>, <<>>)
    /\ ret[p].StackTrace[2] = StackTraceElement(12, <<>>, <<"a">>, <<>>)

\* the last position of "." in s, 0 when there is none
LastDot(s) ==
  IF \E i \in 1..Len(s) : s[i] = "."
  THEN CHOOSE i \in 1..Len(s) : s[i] = "." /\ \A j \in (i + 1)..Len(s) : s[j] # "."
  ELSE 0

\* a symbol without its last "."-separated segment
Qualifier(symbol) == SubSeq(symbol, 1, LastDot(symbol) - 1)

\* the %+s rendering is a symbol, one newline+tab, and a file suffix
SymbolAndFile(s) ==
  /\ Index(s, <<NL, TAB>>) > 0
  /\ Index(After(s, <<NL, TAB>>), <<NL, TAB>>) = 0

\* C13: in strategy A the frame of each descriptor rendered as a qualified
\* symbol, newline+tab and a file suffix has as packageOrClassName the
\* symbol without its last "."-separated segment, as fileName the text
\* after the newline+tab, as methodName the method rendering and as
\* lineNumber the integer the line rendering spells.
C13_StructuredFrameFields ==
  \A p \in Procs :
    Returned(p) /\ arg[p].stM = "A" =>
      /\ Len(ret[p].StackTrace) = Len(arg[p].stA)
      /\ \A i \in 1..Len(arg[p].stA) :
           LET d == arg[p].stA[i]
               f == ret[p].StackTrace[i]
           IN  SymbolAndFile(d.s) =>
                 /\ f.PackageName = Qualifier(Before(d.s, <<NL, TAB>>))
                 /\ f.FileName = After(d.s, <<NL, TAB>>)
                 /\ f.MethodName = d.n
                 /\ Decimal(d.d) => f.LineNumber = IntValue(d.d)

C13_Witness ==
  \E p \in Procs :
    /\ Returned(p)
    /\ arg[p].stM = "A"
    /\ arg[p].stA = <<FrameP, FrameM>>
    /\ ret[p].StackTrace[1] =
         StackTraceElement(12, <<"p", ".", "q">>, <<"a">>, <<"F">>)
    /\ ret[p].StackTrace[2] = StackTraceElement(7, <<"m">>, <<"b">>, <<"G">>)

====
